---------------------------- MODULE Spec2Model ----------------------------
(***************************************************************************)
(* Voice-enabled chat page of the Uber Copilot frontend (ChatPage, the     *)
(* version with speech recognition and speech synthesis).                  *)
(*                                                                         *)
(* The component's React state, the memoised handleSendMessage callback,   *)
(* the chat request in flight, the browser's speech-recognition engine and *)
(* the browser's speech-synthesis queue are the state.  One action stands  *)
(* for one event-loop task: a user event with the handler it runs, an      *)
(* engine event with its callback, or the continuation of the awaited chat *)
(* request.  React commits the state updates of a task before the next     *)
(* task runs, so a task and the re-render it causes are one step.          *)
(*                                                                         *)
(* Strings are sequences of UTF-16 code units, each code unit written as a *)
(* short string ("a", " ", "D83D", ...).                                   *)
(***************************************************************************)
EXTENDS Naturals, Sequences, FiniteSets

(***************************************************************************)
(* Bounds of the model.                                                    *)
(***************************************************************************)
\* first value Date.now() returns in a run
ClockStart == 5
\* how many times the clock advances in a run
MaxTicks == 1
\* no send is accepted once the log is longer than this
MaxLogAtSend == 3
\* ChatInterface accepts no send once its log is this long
MaxInterfaceLog == 3
\* requests a direct caller keeps awaiting at once
MaxDirectRequests == 2
\* final results an engine that is fed to the handlers delivers in a capture
MaxFedFinals == 2

(***************************************************************************)
(* Constants of the program.                                               *)
(***************************************************************************)
\* recognitionInstance.continuous = false: the engine returns at most this
\* many final results for one start(), and no result after the last
MaxFinalResults == 1

(***************************************************************************)
(* Text helpers.                                                           *)
(***************************************************************************)
Whitespace == {" "}

RECURSIVE TrimStart(_)
TrimStart(s) ==
    IF s # <<>> /\ Head(s) \in Whitespace THEN TrimStart(Tail(s)) ELSE s

RECURSIVE TrimEnd(_)
TrimEnd(s) ==
    IF s # <<>> /\ s[Len(s)] \in Whitespace
    THEN TrimEnd(SubSeq(s, 1, Len(s) - 1))
    ELSE s

\* String.prototype.trim
Trim(s) == TrimEnd(TrimStart(s))

\* The code units of the character class of speakResponse's regular
\* expression.  The expression has no u flag, so each emoji outside the
\* basic plane contributes its two surrogates as separate class members.
StripUnits ==
    {"D83D", "D83C", "DCCA", "DE80", "DCA1", "DFAF", "2B50", "2705", "274C",
     "DD34", "DFA4", "DDFA", "FE0F", "DCCD"}

\* text.replace(/[...]/g, '')
CleanText(text) == SelectSeq(text, LAMBDA u : u \notin StripUnits)

(***************************************************************************)
(* Inputs.                                                                 *)
(***************************************************************************)
\* what the user may type into the textarea
TypedTexts == {<<>>, <<" ">>, <<" ", "a">>}

\* the quick-question buttons (one stands for the five)
QuickQuestions == {<<"a">>}

\* response.data of a 2xx reply: the text "g" without insights, and a rocket
\* emoji followed by "g" with an insights payload ("undefined" when absent)
ReplyData ==
    { [response |-> <<"g">>, earner_insights |-> "undefined"],
      [response |-> <<"D83D", "DE80", "g">>, earner_insights |-> "insights"] }

\* how the POST /chat ends
NetOutcomes == {"ok", "http_error", "network_error", "timeout"}

\* recognition result events: the segments from event.resultIndex on
Segment(t, f) == [transcript |-> t, isFinal |-> f]

ResultEvents ==
    { <<Segment(<<"b">>, FALSE)>>,
      <<Segment(<<"a">>, TRUE)>>,
      <<Segment(<<"a">>, TRUE), Segment(<<"b">>, FALSE)>>,
      <<Segment(<<>>, TRUE)>> }

\* the fixed content of errorMessage, shortened to its first word
ApologyText == <<"S", "o", "r", "r", "y">>

\* the content of the initial message, shortened to its first word (it
\* starts with a rocket emoji)
GreetingText == <<"D83D", "DE80", "H", "e", "y">>

(***************************************************************************)
(* State.                                                                  *)
(***************************************************************************)
VARIABLES
    mounted,             \* the component is mounted
    messages,            \* useState: the conversation log
    inputMessage,        \* useState: the textarea's value
    isLoading,           \* useState
    isListening,         \* useState
    isSpeaking,          \* useState
    voiceOutputEnabled,  \* useState
    voiceSupported,      \* useState: the browser has SpeechRecognition
    memoVoiceOutput,     \* voiceOutputEnabled as closed over by the memoised
                         \* handleSendMessage (through speakResponse)
    synthAvailable,      \* window.speechSynthesis exists
    now,                 \* Date.now()
    inflight,            \* chat requests awaiting their response
    recEngine,           \* the SpeechRecognition object's state
    synthQueue,          \* window.speechSynthesis: utterances queued or playing
    synthStale,          \* cancelled utterances whose end/error event is
                         \* still to be delivered
    chatInterface,       \* ChatInterface.jsx, useState of ChatInterface:
                         \* messages, inputValue, isLoading, error
    voiceInput,          \* ChatInterface.jsx, VoiceInput: its useState
                         \* isListening and transcript, and the state of
                         \* its SpeechRecognition object
    voiceCapture,        \* history of VoiceInput's current capture: the
                         \* final results delivered and their text
    ciRequests,          \* axios.post calls of ChatInterface's sendMessage
                         \* awaiting their response
    capture,             \* history of the engine's current (or, right after
                         \* its end event, latest) capture: the final
                         \* results it delivered and their text, its latest
                         \* interim text, and who wrote inputMessage last
                         \* since its start() was accepted
    last                 \* the task that ran last and the calls it made

vars ==
    <<mounted, messages, inputMessage, isLoading, isListening, isSpeaking,
      voiceOutputEnabled, voiceSupported, memoVoiceOutput, synthAvailable,
      now, inflight, recEngine, synthQueue, synthStale, chatInterface,
      voiceInput, voiceCapture, ciRequests, capture, last>>

\* the state of the components of ChatInterface.jsx
interfaceVars == <<chatInterface, voiceInput, voiceCapture, ciRequests>>

\* the task that ran last: the handler, how it went, the calls it made to
\* the chat API and the speech engines, and whether an exception escaped it
Task(op, arg, calls, threw) ==
    [op |-> op, arg |-> arg, calls |-> calls, threw |-> threw]

\* no capture yet, or a capture whose start() has just been accepted:
\* toggleVoiceInput emptied inputMessage and nothing wrote to it since
BlankCapture ==
    [finals |-> 0, finalText |-> <<>>, interim |-> <<>>, writer |-> "none"]

\* ChatInterface: the messages useState initial value (its text shortened
\* to its first word)
InterfaceInitialMessages ==
    << [id |-> 1, text |-> <<"H", "i">>, sender |-> "bot"] >>

\* VoiceInput's effect in a browser without SpeechRecognition:
\* onError('Speech recognition is not supported ...')
UnsupportedMessage == <<"Speech recognition is not supported">>

\* VoiceInput before any capture, or when its start() has just been accepted
BlankVoiceCapture == [finals |-> 0, finalText |-> <<>>]

\* the messages useState initial value
InitialMessages ==
    << [id |-> 1, type |-> "bot", content |-> GreetingText,
        isError |-> FALSE, earnerInsights |-> "undefined"] >>

Init ==
    /\ mounted = TRUE
    /\ messages = InitialMessages
    /\ inputMessage = <<>>
    /\ isLoading = FALSE
    /\ isListening = FALSE
    /\ isSpeaking = FALSE
    /\ voiceOutputEnabled = TRUE
    /\ voiceSupported \in BOOLEAN
    /\ memoVoiceOutput = TRUE
    /\ synthAvailable \in BOOLEAN
    /\ now = ClockStart
    /\ inflight = <<>>
    /\ recEngine = "idle"
    /\ synthQueue = <<>>
    /\ synthStale = 0
    /\ chatInterface = [messages |-> InterfaceInitialMessages,
                        inputValue |-> <<>>,
                        isLoading |-> FALSE,
                        error |-> IF voiceSupported
                                  THEN <<>>
                                  ELSE UnsupportedMessage]
    /\ voiceInput = [isListening |-> FALSE, transcript |-> <<>>,
                     engine |-> "idle"]
    /\ voiceCapture = BlankVoiceCapture
    /\ ciRequests = <<>>
    /\ capture = BlankCapture
    /\ last = Task("mount", "", <<>>, FALSE)

(***************************************************************************)
(* React.                                                                  *)
(***************************************************************************)
\* a state setter: a no-op once the component is unmounted
SetState(current, new) == IF mounted THEN new ELSE current

\* useCallback(..., [inputMessage, isLoading, earnerId]): the callback, and
\* with it the speakResponse and voiceOutputEnabled it closes over, is
\* replaced only by a render in which inputMessage or isLoading changed.
Memo(newInput, newLoading, newVoiceOutput) ==
    IF mounted /\ (newInput # inputMessage \/ newLoading # isLoading)
    THEN newVoiceOutput
    ELSE memoVoiceOutput

Render ==
    memoVoiceOutput' = Memo(inputMessage', isLoading', voiceOutputEnabled')

\* the capture history across a task that is no recognition event: a task
\* that changes inputMessage during a capture becomes its last writer, and
\* the history of an ended capture is dropped
CaptureKept ==
    capture' = IF recEngine = "idle"
               THEN BlankCapture
               ELSE IF inputMessage' # inputMessage
                    THEN [capture EXCEPT !.writer = "other"]
                    ELSE capture

(***************************************************************************)
(* Clock.                                                                  *)
(***************************************************************************)
Tick ==
    /\ now < ClockStart + MaxTicks
    /\ now' = now + 1
    /\ UNCHANGED <<mounted, messages, inputMessage, isLoading, isListening,
                   isSpeaking, voiceOutputEnabled, voiceSupported,
                   memoVoiceOutput, synthAvailable, inflight, recEngine,
                   synthQueue, synthStale, interfaceVars, capture, last>>

(***************************************************************************)
(* Typing.                                                                 *)
(***************************************************************************)
\* a textarea that stays enabled while isListening
TypeTextWhileListening ==
    /\ mounted
    /\ \E t \in TypedTexts :
          /\ t # inputMessage
          /\ inputMessage' = t
          /\ last' = Task("type", "", <<>>, FALSE)
    /\ UNCHANGED <<mounted, messages, isLoading, isListening, isSpeaking,
                   voiceOutputEnabled, voiceSupported, synthAvailable, now,
                   inflight, recEngine, synthQueue, synthStale>>
    /\ CaptureKept
    /\ UNCHANGED interfaceVars
    /\ Render

\* textarea onChange; the textarea is disabled while isListening
TypeText ==
    /\ mounted
    /\ ~isListening
    /\ \E t \in TypedTexts :
          /\ t # inputMessage
          /\ inputMessage' = t
          /\ last' = Task("type", "", <<>>, FALSE)
    /\ UNCHANGED <<mounted, messages, isLoading, isListening, isSpeaking,
                   voiceOutputEnabled, voiceSupported, synthAvailable, now,
                   inflight, recEngine, synthQueue, synthStale>>
    /\ CaptureKept
    /\ UNCHANGED interfaceVars
    /\ Render

(***************************************************************************)
(* Messages.                                                               *)
(***************************************************************************)
\* userMessage of handleSendMessage; it has no isError and no
\* earnerInsights field (undefined, which reads as false / absent)
UserMessage(timestamp, messageText) ==
    [id |-> timestamp, type |-> "user", content |-> messageText,
     isError |-> FALSE, earnerInsights |-> "undefined"]

\* botMessage of handleSendMessage
BotMessage(timestamp, response) ==
    [id |-> timestamp + 1, type |-> "bot", content |-> response.response,
     isError |-> FALSE, earnerInsights |-> response.earner_insights]

\* the apology without its isError flag
ErrorMessageUnflagged(timestamp) ==
    [id |-> timestamp + 1, type |-> "bot", content |-> ApologyText,
     isError |-> FALSE, earnerInsights |-> "undefined"]

\* errorMessage of handleSendMessage
ErrorMessage(timestamp) ==
    [id |-> timestamp + 1, type |-> "bot", content |-> ApologyText,
     isError |-> TRUE, earnerInsights |-> "undefined"]

\* setMessages([message]): the log replaced instead of extended
AppendMessageReplacing(prev, message) == <<message>>

\* setMessages(prev => [...prev, message])
AppendMessage(prev, message) == Append(prev, message)

(***************************************************************************)
(* The chat API.                                                           *)
(***************************************************************************)
NoData == [response |-> <<>>, earner_insights |-> "undefined"]

\* chatAPI.sendMessage: response.data of a 2xx reply; every failure of the
\* POST is caught and a new Error is thrown in its place
chatAPI_sendMessage(outcome, data) ==
    IF outcome = "ok"
    THEN [threw |-> FALSE, value |-> data]
    ELSE [threw |-> TRUE, value |-> NoData]

(***************************************************************************)
(* The speech-synthesis engine (window.speechSynthesis).                   *)
(***************************************************************************)
Utterance(text) == [text |-> text, started |-> FALSE]

\* speechSynthesis.cancel(): the queue is emptied
EngineCancel(queue) == <<>>

\* every utterance a cancel removes still gets its end or error event, which
\* the engine delivers later
StaleAfterCancel(queue) == synthStale + Len(queue)

\* speechSynthesis.speak(utterance): the utterance joins the queue
EngineSpeak(queue, utterance) == Append(queue, utterance)

\* speakResponse without its leading speechSynthesis.cancel()
speakResponseWithoutCancel(text, voiceOutput) ==
    IF ~synthAvailable
    THEN [threw |-> TRUE, queue |-> synthQueue, stale |-> synthStale,
          calls |-> <<>>]
    ELSE IF ~voiceOutput
    THEN [threw |-> FALSE, queue |-> synthQueue, stale |-> synthStale,
          calls |-> <<>>]
    ELSE [threw |-> FALSE,
          queue |-> EngineSpeak(synthQueue, Utterance(CleanText(text))),
          stale |-> synthStale,
          calls |-> <<"synth.speak">>]

\* speakResponse(text), run with the voiceOutputEnabled it closed over.
\* Where window.speechSynthesis is undefined its first line throws.
speakResponse(text, voiceOutput) ==
    IF ~synthAvailable
    THEN [threw |-> TRUE, queue |-> synthQueue, stale |-> synthStale,
          calls |-> <<>>]
    ELSE IF ~voiceOutput
    THEN [threw |-> FALSE, queue |-> EngineCancel(synthQueue),
          stale |-> StaleAfterCancel(synthQueue),
          calls |-> <<"synth.cancel">>]
    ELSE [threw |-> FALSE,
          queue |-> EngineSpeak(EngineCancel(synthQueue),
                                Utterance(CleanText(text))),
          stale |-> StaleAfterCancel(synthQueue),
          calls |-> <<"synth.cancel", "synth.speak">>]

(***************************************************************************)
(* Sending.                                                                *)
(***************************************************************************)
\* the gate without its test of the trimmed text
SendGateIgnoringEmpty(message) == ~isLoading

\* the gate without its isLoading test
SendGateIgnoringLoading(message) == Trim(message) # <<>>

\* if (!message.trim() || isLoading) return;
SendGate(message) == Trim(message) # <<>> /\ ~isLoading

Request(timestamp, messageText) ==
    [timestamp |-> timestamp, messageText |-> messageText,
     voiceOutput |-> memoVoiceOutput]

\* handleSendMessage(message) up to its await
handleSendMessage(message) ==
    IF ~SendGate(message)
    THEN /\ last' = Task("submit", "rejected", <<>>, FALSE)
         /\ UNCHANGED <<messages, inputMessage, isLoading, inflight>>
    ELSE /\ Len(messages) <= MaxLogAtSend
         /\ messages' = AppendMessage(messages,
                                      UserMessage(now, Trim(message)))
         /\ inputMessage' = <<>>
         /\ isLoading' = TRUE
         /\ inflight' = Append(inflight, Request(now, Trim(message)))
         /\ last' = Task("submit", "accepted", <<"chatAPI.sendMessage">>, FALSE)

SubmitFrame ==
    /\ UNCHANGED <<mounted, isListening, isSpeaking, voiceOutputEnabled,
                   voiceSupported, synthAvailable, now, recEngine, synthQueue,
                   synthStale>>
    /\ CaptureKept
    /\ UNCHANGED interfaceVars

\* the send button; disabled={!inputMessage.trim() || isLoading}
ClickSend ==
    /\ mounted
    /\ Trim(inputMessage) # <<>> /\ ~isLoading
    /\ handleSendMessage(inputMessage)
    /\ SubmitFrame
    /\ Render

\* handleKeyPress on Enter; the textarea is disabled while isListening
PressEnter ==
    /\ mounted
    /\ ~isListening
    /\ handleSendMessage(inputMessage)
    /\ SubmitFrame
    /\ Render

\* a quick-question button; shown while messages.length === 1
ClickQuickQuestion ==
    /\ mounted
    /\ Len(messages) = 1
    /\ \E q \in QuickQuestions : handleSendMessage(q)
    /\ SubmitFrame
    /\ Render

\* the continuation with a catch block that also reads the apology aloud
ResolveSpeakingApology(i, outcome, data) ==
    LET req == inflight[i]
        reply == chatAPI_sendMessage(outcome, data)
        spoken == speakResponse(reply.value.response, req.voiceOutput)
        failed == reply.threw \/ spoken.threw
        afterTry ==
            IF reply.threw
            THEN messages
            ELSE AppendMessage(messages,
                               BotMessage(req.timestamp, reply.value))
        afterCatch ==
            IF failed
            THEN AppendMessage(afterTry, ErrorMessage(req.timestamp))
            ELSE afterTry
        apology == speakResponse(ApologyText, req.voiceOutput)
        queue == IF reply.threw THEN apology.queue ELSE spoken.queue
        stale == IF reply.threw THEN apology.stale ELSE spoken.stale
        calls == IF reply.threw THEN apology.calls ELSE spoken.calls
    IN  /\ messages' = SetState(messages, afterCatch)
        /\ isLoading' = SetState(isLoading, FALSE)
        /\ synthQueue' = queue
        /\ synthStale' = stale
        /\ inflight' = SubSeq(inflight, 1, i - 1)
                         \o SubSeq(inflight, i + 1, Len(inflight))
        /\ last' = Task("response", IF reply.threw THEN "rejected" ELSE "resolved",
                        calls, FALSE)

\* handleSendMessage from the resolution of its await to its end, for the
\* request at position i
Resolve(i, outcome, data) ==
    LET req == inflight[i]
        reply == chatAPI_sendMessage(outcome, data)
        spoken == speakResponse(reply.value.response, req.voiceOutput)
        failed == reply.threw \/ spoken.threw
        afterTry ==
            IF reply.threw
            THEN messages
            ELSE AppendMessage(messages,
                               BotMessage(req.timestamp, reply.value))
        afterCatch ==
            IF failed
            THEN AppendMessage(afterTry, ErrorMessage(req.timestamp))
            ELSE afterTry
        queue == IF reply.threw THEN synthQueue ELSE spoken.queue
        stale == IF reply.threw THEN synthStale ELSE spoken.stale
        calls == IF reply.threw THEN <<>> ELSE spoken.calls
    IN  /\ messages' = SetState(messages, afterCatch)
        /\ isLoading' = SetState(isLoading, FALSE)
        /\ synthQueue' = queue
        /\ synthStale' = stale
        /\ inflight' = SubSeq(inflight, 1, i - 1)
                         \o SubSeq(inflight, i + 1, Len(inflight))
        /\ last' = Task("response", IF reply.threw THEN "rejected" ELSE "resolved",
                        calls, FALSE)

\* the continuation with a finally block that also empties inputMessage
RespondClearingInput ==
    /\ \E i \in 1..Len(inflight), outcome \in NetOutcomes :
          \E data \in (IF outcome = "ok" THEN ReplyData ELSE {NoData}) :
             Resolve(i, outcome, data)
    /\ inputMessage' = SetState(inputMessage, <<>>)
    /\ UNCHANGED <<mounted, isListening, isSpeaking, voiceOutputEnabled,
                   voiceSupported, synthAvailable, now, recEngine>>
    /\ CaptureKept
    /\ UNCHANGED interfaceVars
    /\ Render

Respond ==
    /\ \E i \in 1..Len(inflight), outcome \in NetOutcomes :
          \E data \in (IF outcome = "ok" THEN ReplyData ELSE {NoData}) :
             Resolve(i, outcome, data)
    /\ UNCHANGED <<mounted, inputMessage, isListening, isSpeaking,
                   voiceOutputEnabled, voiceSupported, synthAvailable, now,
                   recEngine>>
    /\ CaptureKept
    /\ UNCHANGED interfaceVars
    /\ Render

(***************************************************************************)
(* Speech output.                                                          *)
(***************************************************************************)
\* the speaker button flipping the flag and leaving the engine alone
toggleVoiceOutputWithoutCancel ==
    /\ mounted
    /\ UNCHANGED <<synthQueue, synthStale, isSpeaking>>
    /\ last' = Task("toggleVoiceOutput", "", <<>>, FALSE)
    /\ voiceOutputEnabled' = ~voiceOutputEnabled
    /\ UNCHANGED <<mounted, messages, inputMessage, isLoading, isListening,
                   voiceSupported, synthAvailable, now, inflight, recEngine>>
    /\ CaptureKept
    /\ UNCHANGED interfaceVars
    /\ Render

\* toggleVoiceOutput, the speaker button
toggleVoiceOutput ==
    /\ mounted
    /\ IF isSpeaking
       THEN /\ synthQueue' = EngineCancel(synthQueue)
            /\ synthStale' = StaleAfterCancel(synthQueue)
            /\ isSpeaking' = FALSE
            /\ last' = Task("toggleVoiceOutput", "", <<"synth.cancel">>, FALSE)
       ELSE /\ UNCHANGED <<synthQueue, synthStale, isSpeaking>>
            /\ last' = Task("toggleVoiceOutput", "", <<>>, FALSE)
    /\ voiceOutputEnabled' = ~voiceOutputEnabled
    /\ UNCHANGED <<mounted, messages, inputMessage, isLoading, isListening,
                   voiceSupported, synthAvailable, now, inflight, recEngine>>
    /\ CaptureKept
    /\ UNCHANGED interfaceVars
    /\ Render

SynthFrame ==
    /\ UNCHANGED <<mounted, messages, inputMessage, isLoading, isListening,
                   voiceOutputEnabled, voiceSupported, synthAvailable, now,
                   inflight, recEngine>>
    /\ CaptureKept
    /\ UNCHANGED interfaceVars

\* utterance.onstart: the utterance at the head of the queue starts playing
UtteranceStart ==
    /\ synthQueue # <<>>
    /\ ~synthQueue[1].started
    /\ synthQueue' = <<[synthQueue[1] EXCEPT !.started = TRUE]>>
                        \o Tail(synthQueue)
    /\ isSpeaking' = SetState(isSpeaking, TRUE)
    /\ last' = Task("utterance.onstart", "", <<>>, FALSE)
    /\ UNCHANGED synthStale
    /\ SynthFrame
    /\ Render

\* utterance.onend: the playing utterance finishes
UtteranceEnd ==
    /\ synthQueue # <<>>
    /\ synthQueue[1].started
    /\ synthQueue' = Tail(synthQueue)
    /\ isSpeaking' = SetState(isSpeaking, FALSE)
    /\ last' = Task("utterance.onend", "", <<>>, FALSE)
    /\ UNCHANGED synthStale
    /\ SynthFrame
    /\ Render

\* utterance.onerror: the engine fails on the utterance at the head
UtteranceError ==
    /\ synthQueue # <<>>
    /\ synthQueue' = Tail(synthQueue)
    /\ isSpeaking' = SetState(isSpeaking, FALSE)
    /\ last' = Task("utterance.onerror", "", <<>>, FALSE)
    /\ UNCHANGED synthStale
    /\ SynthFrame
    /\ Render

\* the end or error event of an utterance that a cancel removed; its
\* onend/onerror callbacks are still attached
CancelledUtteranceEvent ==
    /\ synthStale > 0
    /\ synthStale' = synthStale - 1
    /\ isSpeaking' = SetState(isSpeaking, FALSE)
    /\ last' = Task("utterance.cancelled", "", <<>>, FALSE)
    /\ UNCHANGED synthQueue
    /\ SynthFrame
    /\ Render

(***************************************************************************)
(* Speech input.                                                           *)
(***************************************************************************)
\* recognition.stop(): a capture that is starting or running is asked to
\* end; otherwise nothing happens
RecStop(engine) ==
    IF engine \in {"starting", "active"} THEN "stopping" ELSE engine

\* recognition.start(): throws InvalidStateError unless the engine is idle
RecStartThrows(engine) == engine # "idle"

RecStart(engine) == IF engine = "idle" THEN "starting" ELSE engine

\* the microphone button clearing isListening itself when it calls stop()
toggleVoiceInputStoppingAtOnce ==
    /\ mounted
    /\ voiceSupported
    /\ ~isLoading
    /\ IF isListening
       THEN /\ recEngine' = RecStop(recEngine)
            /\ isListening' = FALSE
            /\ last' = Task("toggleVoiceInput", "", <<"recognition.stop">>,
                            FALSE)
            /\ UNCHANGED inputMessage
       ELSE /\ inputMessage' = <<>>
            /\ recEngine' = RecStart(recEngine)
            /\ UNCHANGED isListening
            /\ last' = Task("toggleVoiceInput", "", <<"recognition.start">>,
                            RecStartThrows(recEngine))
    /\ UNCHANGED <<mounted, messages, isLoading, isSpeaking,
                   voiceOutputEnabled, voiceSupported, synthAvailable, now,
                   inflight, synthQueue, synthStale>>
    /\ CaptureKept
    /\ UNCHANGED interfaceVars
    /\ Render

\* toggleVoiceInput, the microphone button; rendered when voiceSupported,
\* disabled={isLoading}
toggleVoiceInput ==
    /\ mounted
    /\ voiceSupported
    /\ ~isLoading
    /\ IF isListening
       THEN /\ recEngine' = RecStop(recEngine)
            /\ last' = Task("toggleVoiceInput", "", <<"recognition.stop">>,
                            FALSE)
            /\ UNCHANGED inputMessage
       ELSE /\ inputMessage' = <<>>
            /\ recEngine' = RecStart(recEngine)
            /\ last' = Task("toggleVoiceInput", "", <<"recognition.start">>,
                            RecStartThrows(recEngine))
    /\ UNCHANGED <<mounted, messages, isLoading, isListening, isSpeaking,
                   voiceOutputEnabled, voiceSupported, synthAvailable, now,
                   inflight, synthQueue, synthStale>>
    /\ CaptureKept
    /\ UNCHANGED interfaceVars
    /\ Render

RecFrame ==
    UNCHANGED <<mounted, messages, isLoading, isSpeaking, voiceOutputEnabled,
                voiceSupported, synthAvailable, now, inflight, synthQueue,
                synthStale, interfaceVars>>

\* recognitionInstance.onstart
RecognitionStart ==
    /\ recEngine = "starting"
    /\ recEngine' = "active"
    /\ isListening' = SetState(isListening, TRUE)
    /\ last' = Task("recognition.onstart", "", <<>>, FALSE)
    /\ UNCHANGED <<inputMessage, capture>>
    /\ RecFrame
    /\ Render

\* the loop of onresult: the final segments' transcripts, concatenated
RECURSIVE FinalTranscript(_)
FinalTranscript(results) ==
    IF results = <<>>
    THEN <<>>
    ELSE (IF Head(results).isFinal THEN Head(results).transcript ELSE <<>>)
            \o FinalTranscript(Tail(results))

\* the transcripts of all segments of a result event, concatenated
RECURSIVE AllSegments(_)
AllSegments(results) ==
    IF results = <<>>
    THEN <<>>
    ELSE Head(results).transcript \o AllSegments(Tail(results))

\* onresult writing every segment's transcript, final or not
OnResultInputAllSegments(results) ==
    IF AllSegments(results) # <<>>
    THEN AllSegments(results)
    ELSE inputMessage

\* onresult appending the event's final text to the final text of the
\* capture's earlier result events
OnResultInputAccumulating(results) ==
    IF FinalTranscript(results) # <<>>
    THEN capture.finalText \o FinalTranscript(results)
    ELSE inputMessage

\* what recognitionInstance.onresult leaves in inputMessage
OnResultInput(results) ==
    IF FinalTranscript(results) # <<>>
    THEN FinalTranscript(results)
    ELSE inputMessage

\* the interim segments' transcripts of a result event, concatenated
RECURSIVE InterimTranscript(_)
InterimTranscript(results) ==
    IF results = <<>>
    THEN <<>>
    ELSE (IF Head(results).isFinal THEN <<>> ELSE Head(results).transcript)
            \o InterimTranscript(Tail(results))

HasFinal(results) == \E i \in 1..Len(results) : results[i].isFinal

\* the capture history after a result event
CaptureAfterResult(results) ==
    [finals    |-> capture.finals + (IF HasFinal(results) THEN 1 ELSE 0),
     finalText |-> capture.finalText \o FinalTranscript(results),
     interim   |-> IF \E i \in 1..Len(results) : ~results[i].isFinal
                   THEN InterimTranscript(results)
                   ELSE capture.interim,
     writer    |-> IF mounted /\ FinalTranscript(results) # <<>>
                   THEN "result"
                   ELSE capture.writer]

\* onresult that also submits the final transcript it wrote
RecognitionResultAutoSending ==
    /\ recEngine \in {"active", "stopping"}
    /\ capture.finals < MaxFinalResults
    /\ \E results \in ResultEvents :
          /\ capture' = CaptureAfterResult(results)
          /\ IF mounted /\ SendGate(FinalTranscript(results))
             THEN /\ messages' = AppendMessage(messages,
                        UserMessage(now, Trim(FinalTranscript(results))))
                  /\ inputMessage' = <<>>
                  /\ isLoading' = TRUE
                  /\ inflight' = Append(inflight,
                        Request(now, Trim(FinalTranscript(results))))
             ELSE /\ inputMessage'
                        = SetState(inputMessage, OnResultInput(results))
                  /\ UNCHANGED <<messages, isLoading, inflight>>
    /\ last' = Task("recognition.onresult", "", <<>>, FALSE)
    /\ UNCHANGED <<mounted, isListening, isSpeaking, voiceOutputEnabled,
                   voiceSupported, synthAvailable, now, recEngine,
                   synthQueue, synthStale, interfaceVars>>
    /\ Render

\* recognitionInstance.onresult; a trailing result may follow stop()
RecognitionResult ==
    /\ recEngine \in {"active", "stopping"}
    /\ capture.finals < MaxFinalResults
    /\ \E results \in ResultEvents :
          /\ inputMessage' = SetState(inputMessage, OnResultInput(results))
          /\ capture' = CaptureAfterResult(results)
    /\ last' = Task("recognition.onresult", "", <<>>, FALSE)
    /\ UNCHANGED <<recEngine, isListening>>
    /\ RecFrame
    /\ Render

\* setIsListening of recognitionInstance.onerror
OnErrorListening == FALSE

\* onerror emptying inputMessage as well
RecognitionErrorDiscarding ==
    /\ recEngine \in {"starting", "active", "stopping"}
    /\ recEngine' = "errored"
    /\ isListening' = SetState(isListening, FALSE)
    /\ inputMessage' = SetState(inputMessage, <<>>)
    /\ last' = Task("recognition.onerror", "", <<>>, FALSE)
    /\ UNCHANGED capture
    /\ RecFrame
    /\ Render

\* recognitionInstance.onerror; the engine's end event follows
RecognitionError ==
    /\ recEngine \in {"starting", "active", "stopping"}
    /\ recEngine' = "errored"
    /\ isListening' = SetState(isListening, OnErrorListening)
    /\ last' = Task("recognition.onerror", "", <<>>, FALSE)
    /\ UNCHANGED <<inputMessage, capture>>
    /\ RecFrame
    /\ Render

\* onend writing the capture's final text, or else its latest interim text
RecognitionEndCommitting ==
    /\ recEngine \in {"active", "stopping", "errored"}
    /\ recEngine' = "idle"
    /\ isListening' = SetState(isListening, FALSE)
    /\ inputMessage' = SetState(inputMessage,
                                IF capture.finalText # <<>>
                                THEN capture.finalText
                                ELSE capture.interim)
    /\ last' = Task("recognition.onend", "", <<>>, FALSE)
    /\ UNCHANGED capture
    /\ RecFrame
    /\ Render

\* onend leaving isListening as it is
OnEndListeningKept == isListening

\* setIsListening of recognitionInstance.onend
OnEndListening == FALSE

\* recognitionInstance.onend
RecognitionEnd ==
    /\ recEngine \in {"active", "stopping", "errored"}
    /\ recEngine' = "idle"
    /\ isListening' = SetState(isListening, OnEndListening)
    /\ last' = Task("recognition.onend", "", <<>>, FALSE)
    /\ UNCHANGED <<inputMessage, capture>>
    /\ RecFrame
    /\ Render

(***************************************************************************)
(* Unmount.                                                                *)
(***************************************************************************)
\* cleanups that look at the component's state first: cancel only while
\* isSpeaking, stop only while isListening
UnmountLookingAtState ==
    /\ mounted
    /\ mounted' = FALSE
    /\ synthQueue' = IF synthAvailable /\ isSpeaking
                     THEN EngineCancel(synthQueue)
                     ELSE synthQueue
    /\ synthStale' = IF synthAvailable /\ isSpeaking
                     THEN StaleAfterCancel(synthQueue)
                     ELSE synthStale
    /\ recEngine' = IF voiceSupported /\ isListening
                    THEN RecStop(recEngine)
                    ELSE recEngine
    /\ last' = Task("unmount", "",
                    (IF synthAvailable /\ isSpeaking
                     THEN <<"synth.cancel">> ELSE <<>>)
                      \o (IF voiceSupported /\ isListening
                          THEN <<"recognition.stop">> ELSE <<>>),
                    ~synthAvailable)
    /\ UNCHANGED <<messages, inputMessage, isLoading, isListening, isSpeaking,
                   voiceOutputEnabled, voiceSupported, memoVoiceOutput,
                   synthAvailable, now, inflight>>
    /\ CaptureKept
    /\ UNCHANGED interfaceVars

\* the two effect cleanups: window.speechSynthesis.cancel() and
\* recognitionInstance.stop().  Where window.speechSynthesis is undefined
\* the first throws; React reports it and runs the second all the same.
Unmount ==
    /\ mounted
    /\ mounted' = FALSE
    /\ synthQueue' = IF synthAvailable THEN EngineCancel(synthQueue)
                     ELSE synthQueue
    /\ synthStale' = IF synthAvailable THEN StaleAfterCancel(synthQueue)
                     ELSE synthStale
    /\ recEngine' = IF voiceSupported THEN RecStop(recEngine) ELSE recEngine
    /\ last' = Task("unmount", "",
                    (IF synthAvailable THEN <<"synth.cancel">> ELSE <<>>)
                      \o (IF voiceSupported THEN <<"recognition.stop">>
                          ELSE <<>>),
                    ~synthAvailable)
    /\ UNCHANGED <<messages, inputMessage, isLoading, isListening, isSpeaking,
                   voiceOutputEnabled, voiceSupported, memoVoiceOutput,
                   synthAvailable, now, inflight>>
    /\ CaptureKept
    /\ UNCHANGED interfaceVars

Next ==
    \/ Tick
    \/ TypeText
    \/ ClickSend
    \/ PressEnter
    \/ ClickQuickQuestion
    \/ Respond
    \/ toggleVoiceOutput
    \/ UtteranceStart
    \/ UtteranceEnd
    \/ UtteranceError
    \/ CancelledUtteranceEvent
    \/ toggleVoiceInput
    \/ RecognitionStart
    \/ RecognitionResult
    \/ RecognitionError
    \/ RecognitionEnd
    \/ Unmount

Spec == Init /\ [][Next]_vars

\* every request is answered or fails: the server replies, the connection
\* breaks, or the axios timeout (60 s) expires
LiveSpec == Spec /\ WF_vars(Respond)

(***************************************************************************)
(* The dispatchers called directly: chatAPI.sendMessage and the            *)
(* sendMessage of ChatInterface.jsx, each driven by any caller, next to    *)
(* ChatInterface's own form.                                               *)
(***************************************************************************)
\* the text a direct caller passes
DirectTexts == {<<>>, <<"a">>}

\* response.data of a 2xx reply to ChatInterface: the reply text is in
\* response or, without it, in message (<<>> stands for a missing field)
InterfaceReplyData ==
    { [response |-> <<"g">>, message |-> <<>>],
      [response |-> <<>>, message |-> <<"m">>] }

\* how the axios.post of ChatInterface ends
InterfaceOutcomes == {"ok", "error"}

\* the text of ChatInterface's errorMessage, shortened to its first word
InterfaceApologyText == <<"S", "o", "r", "r", "y">>

\* setError('Failed to get response. Please try again.')
SendFailedMessage == <<"Failed to get response. Please try again.">>

\* the pages of the chat stay as they are
PageFrame ==
    UNCHANGED <<mounted, messages, inputMessage, isLoading, isListening,
                isSpeaking, voiceOutputEnabled, voiceSupported,
                memoVoiceOutput, synthAvailable, now, recEngine, synthQueue,
                synthStale, capture>>

\* userMessage of ChatInterface's sendMessage
InterfaceUserMessage(log, text) ==
    [id |-> Len(log) + 1, text |-> Trim(text), sender |-> "user"]

\* botMessage and errorMessage of ChatInterface's sendMessage: messages is
\* the log of the render the call was made in
InterfaceBotMessage(logLenAtCall, text) ==
    [id |-> logLenAtCall + 2, text |-> text, sender |-> "bot"]

\* response.data.response || response.data.message
InterfaceReplyText(data) ==
    IF data.response # <<>> THEN data.response ELSE data.message

\* if (!text.trim()) return;
InterfaceSendGate(text) == Trim(text) # <<>>

\* ChatInterface's sendMessage(text) up to its await
InterfaceSend(text) ==
    IF ~InterfaceSendGate(text)
    THEN /\ last' = Task("sendMessage", "rejected", <<>>, FALSE)
         /\ UNCHANGED <<chatInterface, ciRequests>>
    ELSE /\ Len(chatInterface.messages) < MaxInterfaceLog
         /\ Len(ciRequests) < MaxDirectRequests
         /\ chatInterface' =
               [chatInterface EXCEPT
                   !.messages = Append(@, InterfaceUserMessage(@, text)),
                   !.inputValue = <<>>,
                   !.isLoading = TRUE]
         /\ ciRequests' = Append(ciRequests,
                                 [text |-> Trim(text),
                                  logLen |-> Len(chatInterface.messages)])
         /\ last' = Task("sendMessage", "sent", <<"axios.post">>, FALSE)

\* the TextField's onChange; disabled={isLoading}
ChangeInput ==
    /\ ~chatInterface.isLoading
    /\ \E t \in TypedTexts :
          /\ t # chatInterface.inputValue
          /\ chatInterface' = [chatInterface EXCEPT !.inputValue = t]
    /\ last' = Task("onChange", "", <<>>, FALSE)
    /\ UNCHANGED <<voiceInput, voiceCapture, ciRequests, inflight>>
    /\ PageFrame

\* handleSubmit: the form is submitted with Enter in the TextField
\* (disabled={isLoading}) or with the button
\* (disabled={!inputValue.trim() || isLoading})
SubmitForm ==
    /\ ~chatInterface.isLoading
    /\ InterfaceSend(chatInterface.inputValue)
    /\ UNCHANGED <<voiceInput, voiceCapture, inflight>>
    /\ PageFrame

\* sendMessage called by any other caller
CallSendMessage ==
    /\ \E t \in DirectTexts : InterfaceSend(t)
    /\ UNCHANGED <<voiceInput, voiceCapture, inflight>>
    /\ PageFrame

\* the continuation of sendMessage's await: try, catch and finally
InterfaceRespond ==
    /\ \E i \in 1..Len(ciRequests), outcome \in InterfaceOutcomes,
          data \in InterfaceReplyData :
          /\ chatInterface' =
                [chatInterface EXCEPT
                    !.messages =
                        Append(@, InterfaceBotMessage(
                                      ciRequests[i].logLen,
                                      IF outcome = "ok"
                                      THEN InterfaceReplyText(data)
                                      ELSE InterfaceApologyText)),
                    !.error = IF outcome = "ok" THEN @ ELSE SendFailedMessage,
                    !.isLoading = FALSE]
          /\ ciRequests' = SubSeq(ciRequests, 1, i - 1)
                             \o SubSeq(ciRequests, i + 1, Len(ciRequests))
          /\ last' = Task("sendMessage.response", outcome, <<>>, FALSE)
    /\ UNCHANGED <<voiceInput, voiceCapture, inflight>>
    /\ PageFrame

\* the Snackbar's onClose (autoHideDuration or the alert's close button)
CloseSnackbar ==
    /\ chatInterface.error # <<>>
    /\ chatInterface' = [chatInterface EXCEPT !.error = <<>>]
    /\ last' = Task("snackbar.onClose", "", <<>>, FALSE)
    /\ UNCHANGED <<voiceInput, voiceCapture, ciRequests, inflight>>
    /\ PageFrame

\* chatAPI.sendMessage(message, earnerId) called by any caller: it posts
CallChatAPI ==
    /\ Len(inflight) < MaxDirectRequests
    /\ \E t \in DirectTexts :
          inflight' = Append(inflight, Request(now, t))
    /\ last' = Task("chatAPI.sendMessage", "posted", <<"api.post">>, FALSE)
    /\ UNCHANGED interfaceVars
    /\ PageFrame

\* the POST of a direct chatAPI.sendMessage call ends: response.data is
\* returned or the Error is thrown to the caller
SettleChatAPI ==
    /\ \E i \in 1..Len(inflight), outcome \in NetOutcomes,
          data \in ReplyData :
          /\ inflight' = SubSeq(inflight, 1, i - 1)
                           \o SubSeq(inflight, i + 1, Len(inflight))
          /\ last' = Task("chatAPI.settled", outcome, <<>>,
                          chatAPI_sendMessage(outcome, data).threw)
    /\ UNCHANGED interfaceVars
    /\ PageFrame

DispatcherNext ==
    \/ ChangeInput
    \/ SubmitForm
    \/ CallSendMessage
    \/ InterfaceRespond
    \/ CloseSnackbar
    \/ CallChatAPI
    \/ SettleChatAPI

DispatcherSpec == Init /\ [][DispatcherNext]_vars

(***************************************************************************)
(* The recognition handlers fed by an engine: VoiceInput of                *)
(* ChatInterface.jsx with its callbacks into ChatInterface, and ChatPage's *)
(* onresult, each applied to whatever result and error events an engine    *)
(* may deliver.  The handlers do not read continuous, so the engine here   *)
(* may deliver more than one final result in a capture.  VoiceInput's      *)
(* effect replaces the recognition object when ChatInterface renders anew; *)
(* the handlers of the old and of the new object are the same functions of *)
(* their event, and one engine stands for them.                            *)
(***************************************************************************)
\* result events fed to the handlers
FedResultEvents ==
    { <<Segment(<<"a">>, TRUE)>>,
      <<Segment(<<"c">>, TRUE)>>,
      <<Segment(<<"b">>, FALSE)>> }

\* SpeechRecognitionErrorEvent.error values fed to onerror
ErrorCodes ==
    {"no-speech", "audio-capture", "not-allowed", "network", "aborted",
     "bad-grammar"}

\* errorMessage of VoiceInput's onerror
VoiceErrorMessage(code) ==
    CASE code = "no-speech" ->
            <<"No speech detected. Please try again.">>
      [] code = "audio-capture" ->
            <<"No microphone found. Please check your device.">>
      [] code = "not-allowed" ->
            <<"Microphone permission denied. Please enable it in browser settings.">>
      [] OTHER -> <<"Speech recognition error: ", code>>

\* setTranscript(finalTranscript || interimTranscript)
VoiceTranscript(results) ==
    IF FinalTranscript(results) # <<>>
    THEN FinalTranscript(results)
    ELSE InterimTranscript(results)

\* if (finalTranscript && onTranscript) onTranscript(finalTranscript), and
\* handleVoiceTranscript: setInputValue(transcript)
VoiceOnTranscript(results, inputValue) ==
    IF FinalTranscript(results) # <<>>
    THEN FinalTranscript(results)
    ELSE inputValue

\* ChatPage and the requests stay as they are
VoiceFrame ==
    /\ PageFrame
    /\ UNCHANGED <<inflight, ciRequests>>

\* toggleListening, VoiceInput's microphone button
toggleListening ==
    /\ voiceSupported
    /\ IF voiceInput.isListening
       THEN /\ voiceInput' =
                  [voiceInput EXCEPT !.engine = RecStop(@),
                                     !.isListening = FALSE]
            /\ last' = Task("toggleListening", "", <<"recognition.stop">>,
                            FALSE)
            /\ UNCHANGED voiceCapture
       ELSE /\ voiceInput' =
                  [voiceInput EXCEPT !.engine = RecStart(@),
                                     !.transcript = <<>>]
            /\ voiceCapture' = IF voiceInput.engine = "idle"
                               THEN BlankVoiceCapture
                               ELSE voiceCapture
            /\ last' = Task("toggleListening", "", <<"recognition.start">>,
                            RecStartThrows(voiceInput.engine))
    /\ UNCHANGED chatInterface
    /\ VoiceFrame

\* VoiceInput's recognitionInstance.onstart
VoiceOnStart ==
    /\ voiceInput.engine = "starting"
    /\ voiceInput' = [voiceInput EXCEPT !.engine = "active",
                                        !.isListening = TRUE]
    /\ last' = Task("voice.onstart", "", <<>>, FALSE)
    /\ UNCHANGED <<chatInterface, voiceCapture>>
    /\ VoiceFrame

\* VoiceInput's recognitionInstance.onresult
VoiceOnResult ==
    /\ voiceInput.engine \in {"active", "stopping"}
    /\ voiceCapture.finals < MaxFedFinals
    /\ \E results \in FedResultEvents :
          /\ voiceInput' =
                [voiceInput EXCEPT !.transcript = VoiceTranscript(results)]
          /\ chatInterface' =
                [chatInterface EXCEPT
                    !.inputValue = VoiceOnTranscript(results, @)]
          /\ voiceCapture' =
                [finals |-> voiceCapture.finals
                              + (IF HasFinal(results) THEN 1 ELSE 0),
                 finalText |-> voiceCapture.finalText
                                 \o FinalTranscript(results)]
    /\ last' = Task("voice.onresult", "", <<>>, FALSE)
    /\ VoiceFrame

\* VoiceInput's recognitionInstance.onerror, and handleVoiceError; the
\* engine's end event follows
VoiceOnError ==
    /\ voiceInput.engine \in {"starting", "active", "stopping"}
    /\ \E code \in ErrorCodes :
          /\ chatInterface' =
                [chatInterface EXCEPT !.error = VoiceErrorMessage(code)]
          /\ last' = Task("voice.onerror", code, <<>>, FALSE)
    /\ voiceInput' = [voiceInput EXCEPT !.engine = "errored",
                                        !.isListening = FALSE]
    /\ UNCHANGED voiceCapture
    /\ VoiceFrame

\* VoiceInput's recognitionInstance.onend
VoiceOnEnd ==
    /\ voiceInput.engine \in {"active", "stopping", "errored"}
    /\ voiceInput' = [voiceInput EXCEPT !.engine = "idle",
                                        !.isListening = FALSE]
    /\ last' = Task("voice.onend", "", <<>>, FALSE)
    /\ UNCHANGED <<chatInterface, voiceCapture>>
    /\ VoiceFrame

\* ChatPage's recognitionInstance.onresult applied to the fed events
RecognitionResultFed ==
    /\ recEngine \in {"active", "stopping"}
    /\ capture.finals < MaxFedFinals
    /\ \E results \in FedResultEvents :
          /\ inputMessage' = SetState(inputMessage, OnResultInput(results))
          /\ capture' = CaptureAfterResult(results)
    /\ last' = Task("recognition.onresult", "", <<>>, FALSE)
    /\ UNCHANGED <<recEngine, isListening>>
    /\ RecFrame
    /\ Render

CaptureNext ==
    \/ toggleListening
    \/ VoiceOnStart
    \/ VoiceOnResult
    \/ VoiceOnError
    \/ VoiceOnEnd
    \/ toggleVoiceInput
    \/ RecognitionStart
    \/ RecognitionResultFed
    \/ RecognitionError
    \/ RecognitionEnd

CaptureSpec == Init /\ [][CaptureNext]_vars

(***************************************************************************)
(* Properties.                                                             *)
(***************************************************************************)
Calls(task) == {task.calls[i] : i \in 1..Len(task.calls)}

LastMessage(log) == log[Len(log)]

\* the step is the continuation of the awaited request
ResponseStep == Len(inflight') < Len(inflight)

\* C1: a submit invoked while the response to an accepted submit is still
\* outstanding issues no request and appends no user message, and at most
\* one chat request is in flight in every reachable state.
C1_SendGate ==
    /\ [](Len(inflight) <= 1)
    /\ [][(last'.op = "submit" /\ inflight # <<>>)
             => (inflight' = inflight /\ messages' = messages)]_vars

\* a second submit of a non-empty text was rejected while the first
\* request was in flight
C1_Witness ==
    /\ last.op = "submit"
    /\ last.arg = "rejected"
    /\ Trim(inputMessage) # <<>>
    /\ Len(inflight) = 1

\* C2: when the request of an accepted send fails, the log holds the user
\* message of that send followed by exactly one new assistant message,
\* error-flagged and carrying the fixed apology; no exception escapes,
\* isLoading is false again and a non-empty submit passes the gate.
C2_FailureAbsorbed ==
    [][(mounted /\ ResponseStep /\ last'.arg = "rejected")
          => /\ Len(inflight) = 1
             /\ LastMessage(messages).type = "user"
             /\ LastMessage(messages).id = inflight[1].timestamp
             /\ LastMessage(messages).content = inflight[1].messageText
             /\ Len(messages') = Len(messages) + 1
             /\ SubSeq(messages', 1, Len(messages)) = messages
             /\ LastMessage(messages').type = "bot"
             /\ LastMessage(messages').isError
             /\ LastMessage(messages').content = ApologyText
             /\ ~last'.threw
             /\ ~isLoading'
             /\ SendGate(<<"a">>)']_vars

\* a failed exchange is in the log and the submit after it was accepted
C2_Witness ==
    /\ mounted
    /\ Len(messages) = 4
    /\ messages[2].type = "user"
    /\ messages[3].isError
    /\ messages[4].type = "user"
    /\ last.op = "submit"
    /\ last.arg = "accepted"
    /\ Len(inflight) = 1

\* C3: when the request of an accepted send succeeds, exactly one assistant
\* message is appended for it, not error-flagged, carrying a returned text
\* and its insights payload, and isLoading is false again.
C3_SuccessAppendsOneReply ==
    [][(mounted /\ ResponseStep /\ last'.arg = "resolved")
          => /\ Len(messages') = Len(messages) + 1
             /\ SubSeq(messages', 1, Len(messages)) = messages
             /\ LastMessage(messages').type = "bot"
             /\ ~LastMessage(messages').isError
             /\ \E data \in ReplyData :
                   /\ LastMessage(messages').content = data.response
                   /\ LastMessage(messages').earnerInsights
                         = data.earner_insights
             /\ ~isLoading']_vars

\* C4: the ids of the log are strictly increasing in log order (hence
\* pairwise distinct), whatever non-decreasing values the clock returns and
\* however soon a response arrives.  Stated for browsers that have a
\* synthesis engine, where each send appends one reply.
C4_IdsStrictlyIncreasing ==
    synthAvailable =>
        \A i, j \in 1..Len(messages) :
            i < j => messages[i].id < messages[j].id

\* C5: every transition leaves the log it found as a prefix of the log it
\* leaves.
C5_AppendOnly ==
    [][/\ Len(messages) <= Len(messages')
       /\ SubSeq(messages', 1, Len(messages)) = messages]_vars

\* the log has grown through two whole exchanges and the component has
\* been unmounted
C5_Witness ==
    /\ Len(messages) >= 5
    /\ ~mounted
    /\ inflight = <<>>

\* C6: right after the engine's end or error event is processed the
\* component is not listening.
C6_IdleAfterTerminalEvent ==
    (mounted /\ last.op \in {"recognition.onend", "recognition.onerror"})
        => ~isListening

\* the end event of a capture that had started has just been processed
C6_Witness ==
    /\ mounted
    /\ last.op = "recognition.onend"
    /\ recEngine = "idle"
    /\ ~isListening

\* C7: recognition.start() is requested only when the engine has no capture
\* active or pending.
C7_StartOnlyWhenIdle ==
    [][(last' # last /\ "recognition.start" \in Calls(last'))
          => recEngine = "idle"]_vars

\* C8: the engine never holds more than one utterance; a step that hands it
\* an utterance calls cancel exactly once first, and leaves that utterance,
\* not yet started, alone in the queue.
C8_SingleFlightSynthesis ==
    /\ Len(synthQueue) <= 1
    /\ "synth.speak" \in Calls(last)
          => /\ last.calls = <<"synth.cancel", "synth.speak">>
             /\ Len(synthQueue) = 1
             /\ ~synthQueue[1].started

\* a second reply was handed to the engine while the first reply's
\* utterance was still there, and replaced it
C8_Witness ==
    /\ last.op = "response"
    /\ last.calls = <<"synth.cancel", "synth.speak">>
    /\ synthStale >= 1
    /\ Len(synthQueue) = 1

\* C9: once a newer utterance is with the engine, the end/error event of a
\* cancelled utterance does not change isSpeaking.
C9_CancelledEventsIgnored ==
    [][(mounted /\ synthStale' < synthStale /\ synthQueue # <<>>)
          => isSpeaking' = isSpeaking]_vars

\* C10: whenever a non-error assistant message is appended while speech
\* output is enabled (and the browser has a synthesis engine), the engine
\* is handed the sanitized content of that message; isSpeaking becomes
\* true on the utterance's start event and false on its end event.
C10_SpeakAfterReply ==
    /\ [][(/\ mounted
           /\ synthAvailable
           /\ voiceOutputEnabled
           /\ Len(messages') > Len(messages)
           /\ messages'[Len(messages) + 1].type = "bot"
           /\ ~messages'[Len(messages) + 1].isError)
             => /\ "synth.speak" \in Calls(last')
                /\ synthQueue' # <<>>
                /\ LastMessage(synthQueue').text
                      = CleanText(messages'[Len(messages) + 1].content)]_vars
    /\ [][(mounted /\ last' # last /\ last'.op = "utterance.onstart")
             => (~isSpeaking /\ isSpeaking')]_vars
    /\ [][(mounted /\ last' # last /\ last'.op = "utterance.onend")
             => ~isSpeaking']_vars

\* the step appends a non-error assistant message
ReplyAppended ==
    /\ Len(messages') = Len(messages) + 1
    /\ LastMessage(messages').type = "bot"
    /\ ~LastMessage(messages').isError

\* C11: a reply appended while speech output is disabled is not handed to
\* the synthesis engine, whenever the output was disabled (before the
\* send or while the request was in flight); a step of the speaker button
\* never hands the engine an utterance.
C11_DisabledOutputRespected ==
    /\ [][(mounted /\ ~voiceOutputEnabled /\ ReplyAppended)
             => "synth.speak" \notin Calls(last')]_vars
    /\ [][(last' # last /\ last'.op = "toggleVoiceOutput")
             => "synth.speak" \notin Calls(last')]_vars

\* C12: the engine never holds an utterance with the apology's text, and a
\* step that appends an error-flagged message hands the engine nothing.
C12_ErrorsNeverSpoken ==
    /\ [](\A i \in 1..Len(synthQueue) :
             synthQueue[i].text # CleanText(ApologyText))
    /\ [][(Len(messages') > Len(messages) /\ LastMessage(messages').isError)
             => "synth.speak" \notin Calls(last')]_vars

\* a request failed while speech output was on and an engine was there;
\* the apology is in the log and the engine was not called
C12_Witness ==
    /\ mounted
    /\ synthAvailable
    /\ voiceOutputEnabled
    /\ memoVoiceOutput
    /\ last.op = "response"
    /\ last.arg = "rejected"
    /\ LastMessage(messages).isError
    /\ LastMessage(messages).content = ApologyText
    /\ last.calls = <<>>

\* C13: the step that turns speech output off while isSpeaking is true
\* calls the engine's cancel, empties the engine's queue and leaves
\* isSpeaking false.
C13_DisableWhileSpeakingCancels ==
    [][(mounted /\ isSpeaking /\ voiceOutputEnabled /\ ~voiceOutputEnabled')
          => /\ last'.op = "toggleVoiceOutput"
             /\ "synth.cancel" \in Calls(last')
             /\ synthQueue' = <<>>
             /\ ~isSpeaking']_vars

\* speech output was just turned off in the middle of an utterance
C13_Witness ==
    /\ mounted
    /\ last.op = "toggleVoiceOutput"
    /\ last.calls = <<"synth.cancel">>
    /\ ~voiceOutputEnabled
    /\ ~isSpeaking
    /\ synthQueue = <<>>
    /\ synthStale >= 1

\* C14: right after the step that turns speech output off the engine holds
\* no utterance, queued or playing.
C14_NoAudioAfterDisabling ==
    (mounted /\ last.op = "toggleVoiceOutput" /\ ~voiceOutputEnabled)
        => synthQueue = <<>>

\* C15: a failure of the synthesis engine leaves the log alone: the
\* utterance's error event changes no message and leaves isSpeaking false,
\* and a request that succeeded adds its reply and nothing else, with no
\* error-flagged message, whether or not the engine call throws.
C15_PlaybackFailuresSilent ==
    /\ [][(mounted /\ last' # last /\ last'.op = "utterance.onerror")
             => (messages' = messages /\ ~isSpeaking')]_vars
    /\ [][(mounted /\ ResponseStep /\ last'.arg = "resolved")
             => ReplyAppended]_vars

\* C16: when the end event closes a capture that ran without an error and
\* delivered one final result, possibly after interim results, and no typed
\* edit, send or microphone click changed inputMessage after the last write
\* of the capture, inputMessage is exactly the final transcript, whatever
\* the interim texts were.
C16_InterimNeverLeaks ==
    [][(/\ mounted
        /\ recEngine \in {"active", "stopping"}
        /\ recEngine' = "idle"
        /\ capture.finals = 1
        /\ capture.writer # "other")
          => inputMessage' = capture.finalText]_vars

\* a capture that delivered the interim text "b" and the final text "a" has
\* just ended, and the textarea holds "a"
C16_Witness ==
    /\ mounted
    /\ last.op = "recognition.onend"
    /\ recEngine = "idle"
    /\ capture.finals = 1
    /\ capture.finalText = <<"a">>
    /\ capture.interim = <<"b">>
    /\ capture.writer = "result"
    /\ inputMessage = <<"a">>

\* the step is the engine's error event
ErrorEventStep == recEngine # "errored" /\ recEngine' = "errored"

\* C17: when a capture has terminated with an error event, inputMessage
\* does not hold the text that a result event of that capture wrote.
C17_NoCommitOnCaptureError ==
    (mounted /\ recEngine = "errored" /\ capture.writer = "result")
        => inputMessage # capture.finalText

\* C17 as the code has it: the error event writes nothing to inputMessage
\* and removes nothing from it; after it, the text of a final result
\* delivered before the error is still in inputMessage, and where no text
\* was finalized (interim results only) inputMessage is still empty.
C17_ErrorEventKeepsBuffer ==
    /\ [][ErrorEventStep => inputMessage' = inputMessage]_vars
    /\ []((mounted /\ recEngine = "errored" /\ capture.writer = "result")
             => inputMessage = capture.finalText)
    /\ []((mounted /\ recEngine = "errored" /\ capture.writer = "none")
             => inputMessage = <<>>)

\* a final result wrote "a", then the engine reported an error: the
\* component is no longer listening and the textarea still holds "a"
C17_Witness ==
    /\ mounted
    /\ last.op = "recognition.onerror"
    /\ recEngine = "errored"
    /\ ~isListening
    /\ capture.finals = 1
    /\ capture.writer = "result"
    /\ inputMessage = <<"a">>

\* the step is a result event that adds to the capture's history
ResultEventStep == last'.op = "recognition.onresult" /\ capture' # capture

\* the step is the engine's end event
EndEventStep == recEngine # "idle" /\ recEngine' = "idle"

\* the step is a microphone click that calls recognition.stop()
StopRequestStep ==
    /\ last' # last
    /\ last'.op = "toggleVoiceInput"
    /\ "recognition.stop" \in Calls(last')

\* C18: a result event leaves inputMessage alone; the end event of a
\* capture that ran without error writes the accumulated final text or, if
\* there is none, the latest interim text.
C18_CommitAtEndEvent ==
    /\ [][(mounted /\ ResultEventStep) => inputMessage' = inputMessage]_vars
    /\ [][(/\ mounted
           /\ EndEventStep
           /\ recEngine # "errored"
           /\ capture.writer # "other")
             => inputMessage' = IF capture.finalText # <<>>
                                THEN capture.finalText
                                ELSE capture.interim]_vars

\* C18 as the code has it: the write happens at result time.  The result
\* event that carries final text writes that text, and it is the only
\* write of the capture; a result event without final text (interim only)
\* writes nothing; the stop request and the end event write nothing.
C18_CommitAtResultEvent ==
    /\ [][(mounted /\ ResultEventStep)
             => /\ inputMessage' = IF capture'.finalText # <<>>
                                   THEN capture'.finalText
                                   ELSE inputMessage
                /\ capture.writer # "result"]_vars
    /\ [][EndEventStep => inputMessage' = inputMessage]_vars
    /\ [][StopRequestStep => inputMessage' = inputMessage]_vars

\* the final result has written "a" while the capture is still running:
\* the component is listening and the end event is yet to come
C18_Witness ==
    /\ mounted
    /\ last.op = "recognition.onresult"
    /\ recEngine = "active"
    /\ isListening
    /\ capture.finals = 1
    /\ capture.writer = "result"
    /\ inputMessage = <<"a">>

RecognitionEvents ==
    {"recognition.onstart", "recognition.onresult", "recognition.onerror",
     "recognition.onend"}

\* C19: a recognition event (start, result, error, end) issues no request,
\* appends nothing to the log and leaves isLoading alone; a result event
\* changes inputMessage at most; a request is issued only by a submit.
C19_CommitDoesNotAutoSend ==
    /\ [][last'.op \in RecognitionEvents
             => /\ inflight' = inflight
                /\ messages' = messages
                /\ isLoading' = isLoading
                /\ "chatAPI.sendMessage" \notin Calls(last')]_vars
    /\ [][ResultEventStep
             => UNCHANGED <<messages, isLoading, isListening, isSpeaking,
                            voiceOutputEnabled, inflight, synthQueue>>]_vars
    /\ [][Len(inflight') > Len(inflight) => last'.op = "submit"]_vars

\* in the second exchange, where no quick question is offered, the final
\* result wrote "a" and it stayed in the textarea until the send button
\* was clicked, still during the capture: that click sent it
C19_Witness ==
    /\ mounted
    /\ isListening
    /\ capture.finals = 1
    /\ capture.finalText = <<"a">>
    /\ capture.writer = "other"
    /\ last.op = "submit"
    /\ last.arg = "accepted"
    /\ Len(messages) = 4
    /\ LastMessage(messages).type = "user"
    /\ LastMessage(messages).content = <<"a">>
    /\ inputMessage = <<>>

\* C20: while isListening is true, a step that changes inputMessage is a
\* recognition event.
C20_OnlyRecognitionWrites ==
    [][(isListening /\ inputMessage' # inputMessage)
          => last'.op \in RecognitionEvents]_vars

\* C20 as the code has it: while isListening is true no typed edit
\* happens, and a step that changes inputMessage is either a recognition
\* result event or an accepted submit (send button or quick question, both
\* enabled while listening), which empties it.
C20_NoTypedEditWhileListening ==
    /\ [][(isListening /\ last' # last) => last'.op # "type"]_vars
    /\ [][(isListening /\ inputMessage' # inputMessage)
             => \/ last'.op = "recognition.onresult"
                \/ /\ last'.op = "submit"
                   /\ last'.arg = "accepted"
                   /\ inputMessage' = <<>>]_vars

\* while the component was listening, a click on the send button emptied
\* the textarea
C20_Witness ==
    /\ mounted
    /\ isListening
    /\ recEngine = "active"
    /\ last.op = "submit"
    /\ last.arg = "accepted"
    /\ capture.writer = "other"
    /\ inputMessage = <<>>

\* C21: a submit whose text is empty or whitespace-only changes nothing: no
\* message, no request, and inputMessage, isLoading, isSpeaking and the
\* engine's queue stay as they were.  Once the quick questions are gone a
\* submit takes its text from inputMessage; and no user message in the log
\* ever has empty text.
C21_EmptyInputGate ==
    /\ [][(/\ last' # last
           /\ last'.op = "submit"
           /\ Len(messages) # 1
           /\ Trim(inputMessage) = <<>>)
             => /\ last'.arg = "rejected"
                /\ "chatAPI.sendMessage" \notin Calls(last')
                /\ UNCHANGED <<messages, inflight, inputMessage, isLoading,
                               isSpeaking, synthQueue, synthStale>>]_vars
    /\ [](\A i \in 1..Len(messages) :
             messages[i].type = "user" => Trim(messages[i].content) # <<>>)

\* Enter was pressed on a textarea holding one space, with no request in
\* flight, and nothing happened
C21_Witness ==
    /\ mounted
    /\ last.op = "submit"
    /\ last.arg = "rejected"
    /\ inputMessage = <<" ">>
    /\ ~isLoading
    /\ inflight = <<>>
    /\ Len(messages) = 3

\* the step is the unmount of the component
UnmountStep == mounted /\ ~mounted'

\* C22: the unmount calls cancel() on the synthesis engine and stop() on
\* the recognition object, wherever the browser has them, in every state
\* of recognition, synthesis and dispatch; after it the engine's queue is
\* empty and no capture is starting or running.
C22_Teardown ==
    [][UnmountStep
          => /\ synthAvailable
                   => /\ "synth.cancel" \in Calls(last')
                      /\ synthQueue' = <<>>
             /\ voiceSupported
                   => /\ "recognition.stop" \in Calls(last')
                      /\ recEngine' \notin {"starting", "active"}]_vars

\* the component was unmounted with a request in flight, a capture running
\* and an utterance with the engine: both engines were called
C22_Witness ==
    /\ ~mounted
    /\ last.op = "unmount"
    /\ last.calls = <<"synth.cancel", "recognition.stop">>
    /\ isLoading
    /\ inflight # <<>>
    /\ recEngine = "stopping"
    /\ synthStale >= 1
    /\ synthQueue = <<>>

\* the log and isLoading after the response (outcome, data) to the request
\* at position i, as a function of the log, the requests in flight and the
\* environment
LogAfterResponse(log, requests, i, outcome, data, isMounted, hasSynth) ==
    LET req == requests[i]
        reply == chatAPI_sendMessage(outcome, data)
        afterTry == IF reply.threw
                    THEN log
                    ELSE Append(log, BotMessage(req.timestamp, reply.value))
        afterCatch == IF reply.threw \/ ~hasSynth
                      THEN Append(afterTry, ErrorMessage(req.timestamp))
                      ELSE afterTry
    IN  IF isMounted THEN afterCatch ELSE log

\* inputMessage after a result event, as a function of inputMessage and
\* the event
BufferAfterResult(buffer, results, isMounted) ==
    IF isMounted /\ FinalTranscript(results) # <<>>
    THEN FinalTranscript(results)
    ELSE buffer

Responses ==
    {<<outcome, data>> \in NetOutcomes \X (ReplyData \cup {NoData}) :
        (outcome = "ok") = (data \in ReplyData)}

\* C25: a result event and the response to an earlier send commute.  The
\* response changes the log and isLoading as a function of the log and the
\* requests in flight, the result event changes inputMessage as a function
\* of inputMessage; the result event changes neither the log, isLoading,
\* the requests nor what any response would do to them, and the response
\* changes neither inputMessage, a capture under way nor what any result
\* event would do to inputMessage.
C25_ResultAndResponseCommute ==
    /\ [][(ResultEventStep /\ inflight # <<>>)
             => /\ UNCHANGED <<messages, isLoading, inflight>>
                /\ \E results \in ResultEvents :
                      inputMessage'
                         = BufferAfterResult(inputMessage, results, mounted)
                /\ \A i \in 1..Len(inflight), r \in Responses :
                      LogAfterResponse(messages', inflight', i, r[1], r[2],
                                       mounted', synthAvailable')
                         = LogAfterResponse(messages, inflight, i, r[1],
                                            r[2], mounted, synthAvailable)]_vars
    /\ [][ResponseStep
             => /\ UNCHANGED <<inputMessage, recEngine>>
                /\ recEngine # "idle" => UNCHANGED capture
                /\ \E i \in 1..Len(inflight), r \in Responses :
                      /\ messages'
                            = LogAfterResponse(messages, inflight, i, r[1],
                                               r[2], mounted, synthAvailable)
                      /\ isLoading' = (IF mounted THEN FALSE ELSE isLoading)
                /\ \A results \in ResultEvents :
                      BufferAfterResult(inputMessage', results, mounted')
                         = BufferAfterResult(inputMessage, results, mounted)]_vars

\* a capture was running when a quick question was sent; its final result
\* wrote "a" while the request was in flight, then the reply arrived: the
\* log has the reply and the textarea still holds "a"
C25_Witness ==
    /\ mounted
    /\ last.op = "response"
    /\ recEngine = "active"
    /\ capture.finals = 1
    /\ capture.writer = "result"
    /\ inputMessage = <<"a">>
    /\ Len(messages) = 3
    /\ ~isLoading

\* C26: the microphone click that requests the stop leaves isListening
\* true; isListening becomes false only in the engine's end or error
\* event; and a result event that arrives after the stop request and
\* carries final text writes that text to inputMessage.
C26_ListeningUntilEngineEnds ==
    /\ [][StopRequestStep => (isListening /\ isListening')]_vars
    /\ [][(isListening /\ ~isListening')
             => last'.op \in {"recognition.onend", "recognition.onerror"}]_vars
    /\ [][(/\ mounted
           /\ ResultEventStep
           /\ recEngine = "stopping"
           /\ capture'.finalText # capture.finalText)
             => inputMessage' = capture'.finalText]_vars

\* the stop was requested, the component is still listening, and the final
\* result that arrived afterwards has written "a"
C26_Witness ==
    /\ mounted
    /\ last.op = "recognition.onresult"
    /\ recEngine = "stopping"
    /\ isListening
    /\ capture.finals = 1
    /\ capture.writer = "result"
    /\ inputMessage = <<"a">>

\* the last send has its answer: the log ends with a user message and one
\* assistant message after it, and isLoading is false
Answered ==
    /\ ~isLoading
    /\ Len(messages) >= 3
    /\ messages[Len(messages) - 1].type = "user"
    /\ messages[Len(messages)].type = "bot"

\* C28: if every request is eventually answered or fails, then, as long as
\* the component stays mounted, every accepted send (isLoading true) is
\* followed by a state in which isLoading is false and the log ends with
\* the user message of that send and exactly one assistant message.
C28_DispatchAlwaysResolves ==
    (mounted /\ isLoading) ~> (Answered \/ ~mounted)

\* C29: the log is the greeting followed by user and assistant messages in
\* strict alternation; each assistant message is the one of the request of
\* the user message before it (its id is that request's timestamp + 1);
\* and the log ends with a user message only while isLoading is true.
C29_RequestReplyPairing ==
    /\ messages[1] = InitialMessages[1]
    /\ \A k \in 2..Len(messages) :
          IF k % 2 = 0
          THEN messages[k].type = "user"
          ELSE /\ messages[k].type = "bot"
               /\ messages[k].id = messages[k - 1].id + 1
    /\ Len(messages) % 2 = 0 => isLoading

\* C30: once the component is unmounted the synthesis engine holds no
\* utterance and no task hands it one, including the continuation of a
\* request that was in flight at the unmount.
C30_NoSpeechAfterTeardown ==
    ~mounted => (synthQueue = <<>> /\ "synth.speak" \notin Calls(last))

\* C23: the send gate is enforced by the dispatcher itself: while a request
\* of chatAPI.sendMessage, or of ChatInterface's sendMessage, is awaiting
\* its response, a further send invoked directly on that dispatcher issues
\* no network request, whatever the UI has disabled.
C23_DispatcherRejectsWhenBusy ==
    [][ /\ (inflight # <<>> => Len(inflight') <= Len(inflight))
        /\ (ciRequests # <<>> => Len(ciRequests') <= Len(ciRequests)) ]_vars

\* the five classes of capture errors
ErrorClass(code) ==
    CASE code = "no-speech" -> "no-speech"
      [] code = "audio-capture" -> "device-unavailable"
      [] code = "not-allowed" -> "permission-denied"
      [] code = "network" -> "network"
      [] OTHER -> "other"

\* the step is VoiceInput's error event
VoiceErrorStep ==
    /\ last'.op = "voice.onerror"
    /\ voiceInput.engine # "errored"
    /\ voiceInput'.engine = "errored"

\* C24: every engine error code falls into one of the five classes
\* no-speech, device-unavailable, permission-denied, network and other; the
\* message reported to the user is fixed by the class alone, so it is the
\* message any other code of the same class gives; and after the report the
\* component is not listening, so the user may retry.
C24_ErrorReportFixedByClass ==
    [][VoiceErrorStep =>
          /\ ~voiceInput'.isListening
          /\ \A code \in ErrorCodes :
                ErrorClass(code) = ErrorClass(last'.arg)
                   => chatInterface'.error = VoiceErrorMessage(code)]_vars

\* the step is a result event of ChatPage's engine that carries final text
FinalResultStep ==
    /\ mounted
    /\ last'.op = "recognition.onresult"
    /\ capture'.finals = capture.finals + 1
    /\ capture'.finalText # capture.finalText

\* the step is a result event of VoiceInput's engine that carries final text
VoiceFinalResultStep ==
    /\ last'.op = "voice.onresult"
    /\ voiceCapture'.finals = voiceCapture.finals + 1
    /\ voiceCapture'.finalText # voiceCapture.finalText

\* the text a step added to a capture's final text
Arrived(before, after) == SubSeq(after, Len(before) + 1, Len(after))

=============================================================================
